---- MODULE Spec2Model ----
(***************************************************************************)
(* Model of compile.py: merge_markdown_files(book_dir, output_file) and    *)
(* main().  The filesystem is a map from paths to entries; a path is a     *)
(* tuple of parts and every part (a name) is a tuple of codepoints, so     *)
(* that the '*.md' match and the sort order are computed, not assumed.     *)
(* File contents are tuples of bytes (ASCII, one byte per character).      *)
(* Text-mode I/O is modelled for a POSIX build (os.linesep = "\n"): the    *)
(* read applies universal-newline translation, the write maps "\n" to      *)
(* linesep.  The text stream's write buffer is modelled as one buffer of   *)
(* BufSize bytes which is handed to the file when it fills and on close.   *)
(***************************************************************************)
EXTENDS Integers, Sequences, FiniteSets, TLC

VARIABLES fs, st

vars == <<fs, st>>

---------------------------------------------------------------------------
(* Bounds *)

MaxLen == 2          \* longest initial content of a source file
BufSize == 9         \* capacity of the output stream's write buffer

---------------------------------------------------------------------------
(* Characters and names *)

CR == 13
LF == 10
NUL == 0

Alphabet == {65, CR, LF}

BOOK == <<98, 111, 111, 107>>            \* "book"
NOTES == <<110, 111, 116, 101, 115>>     \* "notes"
PLAIN == <<112, 108, 97, 105, 110>>      \* "plain", a regular file
NOPE == <<110, 111, 112, 101>>           \* "nope", does not exist
COMPILED == <<99, 111, 109, 112, 105, 108, 101, 100, 46, 109, 100>>   \* "compiled.md"
N1 == <<49, 46, 109, 100>>               \* "1.md"
N10 == <<49, 48, 46, 109, 100>>          \* "10.md"
N2 == <<50, 46, 109, 100>>               \* "2.md"
NTXT == <<110, 46, 116, 120, 116>>       \* "n.txt"

DOT_MD == <<46, 109, 100>>               \* ".md"
SEPARATOR == <<10, 10, 45, 45, 45, 10, 10>>   \* '\n\n---\n\n'
linesep == <<10>>                        \* os.linesep on POSIX

Names == {N1, N10, N2, NTXT}
TopPaths == {<<BOOK>>, <<NOTES>>, <<PLAIN>>, <<NOPE>>, <<COMPILED>>}
EntryPaths == {<<d, n>> : d \in {BOOK, NOTES}, n \in Names}
AllPaths == TopPaths \cup EntryPaths

Procs == {1, 2}

---------------------------------------------------------------------------
(* Filesystem entries *)

Absent == [kind |-> "absent", data |-> <<>>]
Dir == [kind |-> "dir", data |-> <<>>]
File(d) == [kind |-> "file", data |-> d]

exists(f, path) == f[path].kind # "absent"
is_dir(f, path) == f[path].kind = "dir"

RECURSIVE SeqsUpTo(_)
SeqsUpTo(n) ==
    IF n = 0 THEN {<<>>}
    ELSE LET shorter == SeqsUpTo(n - 1)
         IN  shorter \cup {Append(s, c) : s \in {t \in shorter : Len(t) = n - 1}, c \in Alphabet}

Contents == SeqsUpTo(MaxLen)

---------------------------------------------------------------------------
(* Pure functions *)

\* faulty variant: shorter names first, as a numeric ordering of the prefixes would do
StrLessShortFirst(a, b) ==
    \/ Len(a) < Len(b)
    \/ Len(a) = Len(b) /\ \E k \in 1..Len(a) : a[k] < b[k] /\ \A j \in 1..(k - 1) : a[j] = b[j]

\* str.__lt__: codepoint-wise comparison, a proper prefix is smaller
RECURSIVE StrLess(_, _)
StrLess(a, b) ==
    IF a = <<>> THEN b # <<>>
    ELSE IF b = <<>> THEN FALSE
    ELSE IF a[1] # b[1] THEN a[1] < b[1]
    ELSE StrLess(Tail(a), Tail(b))

\* Path.__lt__: comparison of the tuples of parts
RECURSIVE PathLess(_, _)
PathLess(p, q) ==
    IF p = <<>> THEN q # <<>>
    ELSE IF q = <<>> THEN FALSE
    ELSE IF p[1] # q[1] THEN StrLess(p[1], q[1])
    ELSE PathLess(Tail(p), Tail(q))

RECURSIVE Insert(_, _)
Insert(x, s) ==
    IF s = <<>> THEN <<x>>
    ELSE IF PathLess(x, s[1]) THEN <<x>> \o s
    ELSE <<s[1]>> \o Insert(x, Tail(s))

\* sorted(iterable)
RECURSIVE sorted(_)
sorted(s) == IF s = <<>> THEN <<>> ELSE Insert(s[Len(s)], sorted(SubSeq(s, 1, Len(s) - 1)))

\* faulty variant: the pattern '*' instead of '*.md'
MatchesAnyName(name) == Len(name) >= 1

\* the name matches the pattern '*.md'
MatchesMd(name) ==
    /\ Len(name) >= Len(DOT_MD)
    /\ SubSeq(name, Len(name) - Len(DOT_MD) + 1, Len(name)) = DOT_MD

\* the entries book_path.glob('*.md') yields, in no particular order
glob(f, dir) ==
    {path \in AllPaths : /\ Len(path) = Len(dir) + 1
                         /\ SubSeq(path, 1, Len(dir)) = dir
                         /\ exists(f, path)
                         /\ MatchesMd(path[Len(path)])}

Enumerations(S) ==
    {s \in [1..Cardinality(S) -> S] : \A x \in S : \E k \in 1..Cardinality(S) : s[k] = x}

\* faulty variant: the text is stripped of a trailing newline character
read_text_stripped(b) ==
    IF b # <<>> /\ b[Len(b)] \in {10, 13} THEN SubSeq(b, 1, Len(b) - 1) ELSE b

\* text-mode read (newline=None): "\r\n" and "\r" become "\n"
RECURSIVE read_text(_)
read_text(b) ==
    IF b = <<>> THEN <<>>
    ELSE IF b[1] = CR
         THEN <<LF>> \o read_text(IF Len(b) > 1 /\ b[2] = LF THEN Tail(Tail(b)) ELSE Tail(b))
         ELSE <<b[1]>> \o read_text(Tail(b))

\* text-mode write (newline=None): "\n" becomes os.linesep
RECURSIVE write_text(_)
write_text(s) ==
    IF s = <<>> THEN <<>>
    ELSE (IF s[1] = LF THEN linesep ELSE <<s[1]>>) \o write_text(Tail(s))

\* faulty variant: the bytes are appended at the end of the file, whatever the offset
WriteAtEnd(data, pos, bytes) == data \o bytes

\* write(2) of bytes at a file offset; a gap past the end reads as NULs
WriteAt(data, pos, bytes) ==
    LET padded == IF Len(data) < pos
                  THEN data \o [k \in 1..(pos - Len(data)) |-> NUL]
                  ELSE data
    IN  SubSeq(padded, 1, pos) \o bytes \o SubSeq(padded, pos + Len(bytes) + 1, Len(padded))

---------------------------------------------------------------------------
(* State *)

\* fs      the filesystem: path -> entry
\* st[p]   invocation p of main(): its arguments, locals and position
\*         snap, written, segs and opened are history fields: the filesystem
\*         at the call, the bytes handed to outfile.write so far, the byte
\*         range of the output stream written for each source file,
\*         whether the output path was ever opened, and the output's
\*         content when success was reported

InitProc(d, o) ==
    [pc |-> "idle", book_dir |-> d, output_file |-> o, md_files |-> <<>>, i |-> 0,
     content |-> <<>>, buf |-> <<>>, pos |-> 0, isopen |-> FALSE,
     result |-> FALSE, err |-> "", exitcode |-> -1,
     snap |-> [path \in AllPaths |-> Absent], written |-> <<>>, segs |-> <<>>,
     opened |-> FALSE, final |-> <<>>]

EntryOpts(C) == {Absent} \cup {File(d) : d \in C}

MkFs(book, notes, out) ==
    [path \in AllPaths |->
        IF path = <<BOOK>> \/ path = <<NOTES>> THEN Dir
        ELSE IF path = <<PLAIN>> THEN File(<<65>>)
        ELSE IF path = <<NOPE>> THEN Absent
        ELSE IF path = <<COMPILED>> THEN out
        ELSE IF path[1] = BOOK THEN book[path[2]]
        ELSE notes[path[2]]]

BookDirs == {<<BOOK>>, <<PLAIN>>, <<NOPE>>}
Outputs == {<<COMPILED>>, <<BOOK, N1>>, <<BOOK, N2>>}

\* one invocation, then a second one with the same arguments
Init ==
    /\ \E c1 \in EntryOpts(Contents), c2 \in EntryOpts(SeqsUpTo(1)),
          c10 \in EntryOpts({<<66>>}), ctxt \in EntryOpts({<<67>>}),
          out \in EntryOpts({<<79>>}) :
          fs = MkFs([n \in Names |-> IF n = N1 THEN c1 ELSE IF n = N2 THEN c2
                                     ELSE IF n = N10 THEN c10 ELSE ctxt],
                    [n \in Names |-> Absent], out)
    /\ \E d \in BookDirs, o \in Outputs : st = [p \in Procs |-> InitProc(d, o)]

---------------------------------------------------------------------------
(* The output stream *)

\* the buffered bytes, if any, go to the file at the stream's offset
Flush(f, s) ==
    IF s.buf = <<>> THEN f
    ELSE [f EXCEPT ![s.output_file] = File(WriteAt(f[s.output_file].data, s.pos, s.buf))]

\* outfile.write(text): the text is buffered; a full buffer is written out
StreamWrite(f, s, text) ==
    LET bytes == write_text(text)
        nb == s.buf \o bytes
        s1 == [s EXCEPT !.written = s.written \o bytes]
    IN  IF Len(nb) >= BufSize
        THEN [fs |-> Flush(f, [s EXCEPT !.buf = nb]),
              st |-> [s1 EXCEPT !.buf = <<>>, !.pos = s.pos + Len(nb)]]
        ELSE [fs |-> f, st |-> [s1 EXCEPT !.buf = nb]]

\* leaving the with block: flush and close
StreamClose(f, s) ==
    [fs |-> Flush(f, s),
     st |-> [s EXCEPT !.buf = <<>>, !.pos = s.pos + Len(s.buf), !.isopen = FALSE]]

\* return False after the message of the failed check or the except clause
ReturnFalse(s, e) == [s EXCEPT !.result = FALSE, !.err = e, !.pc = "returned"]

---------------------------------------------------------------------------
(* Actions *)

\* main() calls merge_markdown_files(args.book_dir, args.output)
Invoke(p) ==
    /\ st[p].pc = "idle"
    /\ st' = [st EXCEPT ![p].pc = "check_exists", ![p].snap = fs]
    /\ UNCHANGED fs

\* the second run follows a first run that exited with 0
InvokeNext(p) ==
    /\ \A q \in Procs : q < p => st[q].pc = "exited" /\ st[q].exitcode = 0
    /\ Invoke(p)

CheckExists(p) ==
    /\ st[p].pc = "check_exists"
    /\ st' = [st EXCEPT ![p] =
                IF ~exists(fs, st[p].book_dir)
                THEN ReturnFalse(st[p], "NotFound")
                ELSE [st[p] EXCEPT !.pc = "check_dir"]]
    /\ UNCHANGED fs

CheckIsDir(p) ==
    /\ st[p].pc = "check_dir"
    /\ st' = [st EXCEPT ![p] =
                IF ~is_dir(fs, st[p].book_dir)
                THEN ReturnFalse(st[p], "NotADir")
                ELSE [st[p] EXCEPT !.pc = "glob"]]
    /\ UNCHANGED fs

\* faulty variant: the output is opened before the list is found to be empty
GlobAfterOpen(p) ==
    /\ st[p].pc = "glob"
    /\ fs' = [fs EXCEPT ![st[p].output_file] = File(<<>>)]
    /\ LET files == sorted(CHOOSE e \in Enumerations(glob(fs, st[p].book_dir)) : TRUE)
       IN  st' = [st EXCEPT ![p] =
                    IF files = <<>>
                    THEN ReturnFalse(st[p], "Empty")
                    ELSE [st[p] EXCEPT !.md_files = files, !.pc = "open"]]

Glob(p) ==
    /\ st[p].pc = "glob"
    /\ \E e \in Enumerations(glob(fs, st[p].book_dir)) :
          LET files == sorted(e)
          IN  st' = [st EXCEPT ![p] =
                       IF files = <<>>
                       THEN ReturnFalse(st[p], "Empty")
                       ELSE [st[p] EXCEPT !.md_files = files, !.pc = "open"]]
    /\ UNCHANGED fs

\* faulty variant: mode 'a', an existing output is kept and written after its end
OpenAppend(p) ==
    /\ st[p].pc = "open"
    /\ fs' = [fs EXCEPT ![st[p].output_file] = File(fs[st[p].output_file].data)]
    /\ st' = [st EXCEPT ![p].isopen = TRUE, ![p].opened = TRUE, ![p].buf = <<>>,
                        ![p].pos = Len(fs[st[p].output_file].data), ![p].i = 0,
                        ![p].pc = "read"]

\* faulty variant: the first source file is opened for writing instead of the output
OpenSource(p) ==
    /\ st[p].pc = "open"
    /\ fs' = [fs EXCEPT ![st[p].md_files[1]] = File(<<>>)]
    /\ st' = [st EXCEPT ![p].isopen = TRUE, ![p].opened = TRUE, ![p].buf = <<>>,
                        ![p].pos = 0, ![p].i = 0, ![p].pc = "read"]

\* output_path.open('w'): the file is created or truncated, the loop starts
Open(p) ==
    /\ st[p].pc = "open"
    /\ fs' = [fs EXCEPT ![st[p].output_file] = File(<<>>)]
    /\ st' = [st EXCEPT ![p].isopen = TRUE, ![p].opened = TRUE, ![p].buf = <<>>,
                        ![p].pos = 0, ![p].i = 0, ![p].pc = "read"]

OpenFail(p) ==
    /\ st[p].pc = "open"
    /\ st' = [st EXCEPT ![p] = ReturnFalse(st[p], "IO")]
    /\ UNCHANGED fs

Read(p) ==
    /\ st[p].pc = "read"
    /\ LET md_file == st[p].md_files[st[p].i + 1]
       IN  /\ fs[md_file].kind = "file"
           /\ st' = [st EXCEPT ![p].content = read_text(fs[md_file].data),
                               ![p].pc = "write"]
    /\ UNCHANGED fs

\* faulty variant: a file that cannot be read is skipped and the loop goes on
ReadFailSkips(p) ==
    /\ st[p].pc = "read"
    /\ st' = [st EXCEPT ![p].content = <<>>, ![p].pc = "write"]
    /\ UNCHANGED fs

\* read_text raises: the with block closes the stream, the except returns
ReadFail(p) ==
    /\ st[p].pc = "read"
    /\ LET c == StreamClose(fs, st[p])
       IN  /\ fs' = c.fs
           /\ st' = [st EXCEPT ![p] = ReturnFalse(c.st, "IO")]

WriteContent(p) ==
    /\ st[p].pc = "write"
    /\ LET s == st[p]
           w == StreamWrite(fs, s, s.content)
           seg == [path |-> s.md_files[s.i + 1], from |-> Len(s.written),
                   to |-> Len(w.st.written)]
       IN  /\ fs' = w.fs
           /\ st' = [st EXCEPT ![p] =
                       [w.st EXCEPT !.segs = Append(s.segs, seg),
                                    !.pc = IF s.i < Len(s.md_files) - 1
                                           THEN "sep" ELSE "close"]]

WriteSep(p) ==
    /\ st[p].pc = "sep"
    /\ LET w == StreamWrite(fs, st[p], SEPARATOR)
       IN  /\ fs' = w.fs
           /\ st' = [st EXCEPT ![p] = [w.st EXCEPT !.i = st[p].i + 1, !.pc = "read"]]

\* a write to the file fails: part of the buffered bytes may have reached it
WriteFail(p) ==
    /\ st[p].pc \in {"write", "sep", "close"}
    /\ LET s == st[p]
           text == IF s.pc = "write" THEN s.content
                   ELSE IF s.pc = "sep" THEN SEPARATOR ELSE <<>>
           nb == s.buf \o write_text(text)
       IN  \E k \in 0..Len(nb) :
              LET c == StreamClose(fs, [s EXCEPT !.buf = SubSeq(nb, 1, k),
                                                 !.written = s.written \o write_text(text)])
              IN  /\ fs' = c.fs
                  /\ st' = [st EXCEPT ![p] = ReturnFalse(c.st, "IO")]

Close(p) ==
    /\ st[p].pc = "close"
    /\ LET c == StreamClose(fs, st[p])
       IN  /\ fs' = c.fs
           /\ st' = [st EXCEPT ![p] = [c.st EXCEPT !.pc = "stat"]]

\* the success messages (one reads the output's size) and return True
Stat(p) ==
    /\ st[p].pc = "stat"
    /\ exists(fs, st[p].output_file)
    /\ st' = [st EXCEPT ![p].result = TRUE, ![p].pc = "returned",
                        ![p].final = fs[st[p].output_file].data]
    /\ UNCHANGED fs

StatFail(p) ==
    /\ st[p].pc = "stat"
    /\ st' = [st EXCEPT ![p] = ReturnFalse(st[p], "IO")]
    /\ UNCHANGED fs

\* faulty variant: the exit code does not depend on the result
MainExitsZero(p) ==
    /\ st[p].pc = "returned"
    /\ st' = [st EXCEPT ![p].exitcode = 0, ![p].pc = "exited"]
    /\ UNCHANGED fs

\* main(): return 0 if success else 1
Main(p) ==
    /\ st[p].pc = "returned"
    /\ st' = [st EXCEPT ![p].exitcode = IF st[p].result THEN 0 ELSE 1,
                        ![p].pc = "exited"]
    /\ UNCHANGED fs

Step(p) ==
    \/ CheckExists(p)
    \/ CheckIsDir(p)
    \/ Glob(p)
    \/ Open(p)
    \/ OpenFail(p)
    \/ Read(p)
    \/ ReadFail(p)
    \/ WriteContent(p)
    \/ WriteSep(p)
    \/ WriteFail(p)
    \/ Close(p)
    \/ Stat(p)
    \/ StatFail(p)
    \/ Main(p)

Next == \E p \in Procs : InvokeNext(p) \/ Step(p)

Spec == Init /\ [][Next]_vars

---------------------------------------------------------------------------
(* Two concurrent invocations with the same output path *)

InitRace ==
    /\ \E c1 \in {File(<<65>>), File(<<65, 65>>)}, c2 \in EntryOpts({<<66>>}),
          n1 \in {File(<<67>>), File(<<67, CR, LF>>)}, out \in EntryOpts({<<79>>}) :
          fs = MkFs([n \in Names |-> IF n = N1 THEN c1 ELSE IF n = N2 THEN c2 ELSE Absent],
                    [n \in Names |-> IF n = N1 THEN n1 ELSE Absent], out)
    /\ st = [p \in Procs |-> InitProc(IF p = 1 THEN <<BOOK>> ELSE <<NOTES>>, <<COMPILED>>)]

NextRace == \E p \in Procs : Invoke(p) \/ Step(p)

SpecRace == InitRace /\ [][NextRace]_vars

---------------------------------------------------------------------------
(* Vocabulary of the properties, defined without the operators above *)

IsPrefix(a, b) == Len(a) <= Len(b) /\ SubSeq(b, 1, Len(a)) = a

\* a precedes b in lexicographic codepoint order
LexLess(a, b) ==
    \E k \in 0..Len(a) :
        /\ k <= Len(b)
        /\ \A j \in 1..k : a[j] = b[j]
        /\ IF k = Len(a) THEN Len(b) > k ELSE k < Len(b) /\ a[k + 1] < b[k + 1]

EndsInMd(name) == \E k \in 0..Len(name) : name = SubSeq(name, 1, k) \o <<46, 109, 100>>

\* the entries directly inside dir whose name ends in '.md'
Matched(f, dir) ==
    {path \in EntryPaths : <<path[1]>> = dir /\ f[path].kind # "absent" /\ EndsInMd(path[2])}

\* the entries of S in ascending filename order
Ascending(S) ==
    CHOOSE s \in Enumerations(S) :
        \A a, b \in 1..Cardinality(S) : a < b => LexLess(s[a][2], s[b][2])

\* the parts joined by the separator, once between consecutive parts
RECURSIVE Join(_)
Join(parts) ==
    IF parts = <<>> THEN <<>>
    ELSE IF Len(parts) = 1 THEN parts[1]
    ELSE parts[1] \o <<10, 10, 45, 45, 45, 10, 10>> \o Join(Tail(parts))

\* b with every CR LF pair and every lone CR replaced by one LF
Normalized(b) ==
    LET F[k \in 0..Len(b)] ==
            IF k = 0 THEN <<>>
            ELSE IF b[k] = 10 /\ k > 1 /\ b[k - 1] = 13 THEN F[k - 1]
            ELSE Append(F[k - 1], IF b[k] = 13 THEN 10 ELSE b[k])
    IN  F[Len(b)]

Prefixes(b) == {SubSeq(b, 1, k) : k \in 0..Len(b)}

\* p is the invocation started last: nothing else ran since its call
Latest(p) == st[p].pc # "idle" /\ \A q \in Procs : q > p => st[q].pc = "idle"

Returned(p) == st[p].pc = "returned"
Succeeded(p) == Returned(p) /\ st[p].result

Sources(p) == Ascending(Matched(st[p].snap, st[p].book_dir))
OutData(p) == fs[st[p].output_file].data
SelfMerge(p) == st[p].output_file \in Matched(st[p].snap, st[p].book_dir)
Segment(p, k) == SubSeq(OutData(p), st[p].segs[k].from + 1, st[p].segs[k].to)

---------------------------------------------------------------------------
(* C1 *)

\* C1 as stated: whenever the merge returns success, the output file holds the
\* contents of all matched entries, in ascending filename order, joined by
\* the separator.
C1_OutputIsJoinOfContents ==
    \A p \in Procs :
        Succeeded(p) /\ Latest(p) =>
            OutData(p) = Join([k \in 1..Len(Sources(p)) |-> st[p].snap[Sources(p)[k]].data])

\* C1 amended: whenever the merge returns success and the output path is not
\* itself a matched entry, the output file holds the contents as read in text
\* mode (CR LF and lone CR replaced by LF) of all matched entries, in
\* ascending filename order, with the separator once between consecutive
\* files, none before the first and none after the last.
C1_OutputIsJoinOfTexts ==
    \A p \in Procs :
        Succeeded(p) /\ Latest(p) /\ ~SelfMerge(p) =>
            OutData(p) = Join([k \in 1..Len(Sources(p)) |->
                                  Normalized(st[p].snap[Sources(p)[k]].data)])

C1_Witness ==
    /\ Succeeded(1)
    /\ Latest(1)
    /\ ~SelfMerge(1)
    /\ Len(Sources(1)) = 3
    /\ \E k \in 1..3 : 13 \in {st[1].snap[Sources(1)[k]].data[j] :
                                j \in 1..Len(st[1].snap[Sources(1)[k]].data)}

---------------------------------------------------------------------------
(* C2 *)

\* C2: the merge order is the ascending lexicographic (codepoint) order of
\* the filenames of the matched entries and nothing else: the list of files
\* is the matched set in that order whatever order the directory lists them
\* in, a file with a smaller name has its content written earlier, and the
\* files 2.md, 10.md, 1.md are merged in the order 1.md, 10.md, 2.md.
C2_LexicographicOrder ==
    \A p \in Procs :
        st[p].md_files # <<>> =>
            /\ st[p].md_files = Sources(p)
            /\ \A a, b \in 1..Len(st[p].segs) :
                  a < b => /\ LexLess(st[p].segs[a].path[2], st[p].segs[b].path[2])
                           /\ st[p].segs[a].to <= st[p].segs[b].from
            /\ \A a \in 1..Len(st[p].segs) : st[p].segs[a].path = st[p].md_files[a]
            /\ (Matched(st[p].snap, <<BOOK>>) = {<<BOOK, N2>>, <<BOOK, N10>>, <<BOOK, N1>>}
                  /\ st[p].book_dir = <<BOOK>>
                  => st[p].md_files = <<<<BOOK, N1>>, <<BOOK, N10>>, <<BOOK, N2>>>>)

C2_Witness ==
    /\ Succeeded(1)
    /\ [k \in 1..Len(st[1].segs) |-> st[1].segs[k].path[2]] = <<N1, N10, N2>>
    /\ st[1].segs[1].to < st[1].segs[2].from

---------------------------------------------------------------------------
(* C3 *)

\* C3: a merge that fails at a precondition check (directory missing, path
\* not a directory, no '.md' entry), the checks being made in that order,
\* returns failure with the output path never opened and the filesystem,
\* an already existing output file included, unchanged.
C3_PreconditionFailure ==
    \A p \in Procs :
        Returned(p) /\ Latest(p) =>
            LET d == st[p].book_dir
                f == st[p].snap
            IN  /\ f[d].kind = "absent" => st[p].err = "NotFound"
                /\ f[d].kind = "file" => st[p].err = "NotADir"
                /\ f[d].kind = "dir" /\ Matched(f, d) = {} => st[p].err = "Empty"
                /\ st[p].err \in {"NotFound", "NotADir", "Empty"} =>
                      ~st[p].result /\ ~st[p].opened /\ fs = f

C3_Witness ==
    /\ Returned(1)
    /\ st[1].err = "Empty"
    /\ fs[<<BOOK, NTXT>>].kind = "file"
    /\ st[1].output_file = <<COMPILED>>
    /\ fs[<<COMPILED>>] = File(<<79>>)

---------------------------------------------------------------------------
(* C4 *)

\* C4 as stated: two successful runs in succession with the same arguments
\* leave the same output, wherever the output path lies.
C4_SecondRunSameOutput ==
    Succeeded(2) => st[1].result /\ OutData(2) = st[1].final

\* C4 amended: two successful runs in succession with the same arguments
\* leave the same output, provided the output path is not a matched '.md'
\* entry of the source directory that the first run created (it lies
\* outside the matched entries, or it existed before the first run).
C4_SecondRunSameOutputUnlessCreated ==
    Succeeded(2) /\ (~SelfMerge(2) \/ exists(st[1].snap, st[1].output_file)) =>
        /\ st[2].final = st[1].final
        /\ OutData(2) = st[1].final

C4_Witness ==
    /\ Succeeded(2)
    /\ SelfMerge(1)
    /\ Len(st[2].md_files) = 3
    /\ st[2].final # <<>>

---------------------------------------------------------------------------
(* C5 *)

\* C5 as stated: the segment of the output written for a source file is
\* identical to that file's content, whatever characters it holds.
C5_SegmentsVerbatim ==
    \A p \in Procs :
        Succeeded(p) /\ Latest(p) =>
            \A k \in 1..Len(st[p].segs) :
                Segment(p, k) = st[p].snap[st[p].segs[k].path].data

\* C5 amended: the segment of the output written for a source file other
\* than the output path itself is that file's content with every CR LF pair
\* and every lone CR replaced by one LF, and nothing else changed or
\* trimmed; a content without CR reaches the output verbatim.
C5_SegmentsNewlineTranslated ==
    \A p \in Procs :
        Succeeded(p) /\ Latest(p) =>
            \A k \in 1..Len(st[p].segs) :
                LET data == st[p].snap[st[p].segs[k].path].data
                IN  st[p].segs[k].path # st[p].output_file =>
                       /\ Segment(p, k) = Normalized(data)
                       /\ (\A j \in 1..Len(data) : data[j] # 13) => Segment(p, k) = data

C5_Witness ==
    /\ Succeeded(1)
    /\ Latest(1)
    /\ Len(st[1].segs) = 2
    /\ st[1].snap[<<BOOK, N1>>].data = <<13, 10>>
    /\ st[1].snap[<<BOOK, N2>>].data = <<13>>
    /\ OutData(1) = <<10, 10, 10, 45, 45, 45, 10, 10, 10>>

---------------------------------------------------------------------------
(* C6 *)

\* C6: in every run, at every step, every path other than the output path
\* has the existence and the content it had when the run was called.
C6_OnlyOutputChanges ==
    \A p \in Procs :
        Latest(p) => \A path \in AllPaths \ {st[p].output_file} : fs[path] = st[p].snap[path]

C6_Witness ==
    /\ Succeeded(1)
    /\ Latest(1)
    /\ fs[st[1].output_file] # st[1].snap[st[1].output_file]
    /\ Len(st[1].md_files) >= 2

---------------------------------------------------------------------------
(* C7 *)

\* C7: main exits with 0 exactly when the merge returned success and with 1
\* on every failure; success is returned only with every matched file's
\* content and every separator written, the stream closed and the output
\* file complete.
C7_ExitCode ==
    \A p \in Procs :
        /\ st[p].pc = "exited" =>
              /\ st[p].exitcode \in {0, 1}
              /\ st[p].exitcode = 0 <=> st[p].result
              /\ st[p].err \in {"NotFound", "NotADir", "Empty", "IO"} => st[p].exitcode = 1
        /\ st[p].pc \in {"returned", "exited"} /\ st[p].result =>
              /\ st[p].err = ""
              /\ ~st[p].isopen /\ st[p].buf = <<>>
              /\ Len(st[p].segs) = Len(st[p].md_files)
              /\ \A k \in 1..Len(st[p].segs) :
                    /\ st[p].segs[k].path = st[p].md_files[k]
                    /\ st[p].segs[k].from =
                          IF k = 1 THEN 0 ELSE st[p].segs[k - 1].to + Len(SEPARATOR)
                    /\ k > 1 => SubSeq(st[p].written, st[p].segs[k - 1].to + 1,
                                       st[p].segs[k].from) = SEPARATOR
              /\ st[p].segs[Len(st[p].segs)].to = Len(st[p].written)
              /\ st[p].final = st[p].written

C7_Witness ==
    /\ st[1].pc = "exited" /\ st[1].exitcode = 0 /\ Len(st[1].md_files) = 3
    /\ st[2].pc = "exited" /\ st[2].exitcode = 1

---------------------------------------------------------------------------
(* C8 *)

\* the text written before the output path's own position in the list
Preceding(p) ==
    LET files == Sources(p)
        own == {k \in 1..Len(files) : files[k] = st[p].output_file}
    IN  IF own = {} \/ own = {1} THEN <<>>
        ELSE LET j == CHOOSE k \in own : TRUE
             IN  Join([k \in 1..(j - 1) |-> Normalized(st[p].snap[files[k]].data)])
                    \o <<10, 10, 45, 45, 45, 10, 10>>

\* the merged document of a run without failure, the output path, where it
\* is itself a source, contributing x
FullDocument(p, x) ==
    LET files == Sources(p)
    IN  Join([k \in 1..Len(files) |->
                 IF files[k] = st[p].output_file THEN x
                 ELSE Normalized(st[p].snap[files[k]].data)])

\* what the output path may contribute where it is itself a source
OwnParts(p) == IF SelfMerge(p) THEN Prefixes(Preceding(p)) ELSE {<<>>}

\* C8: from the opening of the output on, at every step of a run and after
\* a read or write failure has aborted it, the output file holds a prefix of
\* the full merged document of a failure-free run (an output path that is
\* itself a source contributing what of the preceding text had reached the
\* file); a failure returns failure and no later file is read or written.
C8_OutputIsPrefix ==
    \A p \in Procs :
        Latest(p) /\ st[p].opened =>
            /\ \E x \in OwnParts(p) : IsPrefix(OutData(p), FullDocument(p, x))
            /\ Returned(p) /\ st[p].err = "IO" =>
                  /\ ~st[p].result
                  /\ ~st[p].isopen
                  /\ Len(st[p].segs) <= st[p].i + 1
                  /\ st[p].i < Len(st[p].md_files)

C8_Witness ==
    /\ Returned(1)
    /\ st[1].err = "IO"
    /\ st[1].opened
    /\ Len(st[1].md_files) = 3
    /\ st[1].i = 1
    /\ OutData(1) # <<>>
    /\ OutData(1) # FullDocument(1, <<>>)
    /\ ~SelfMerge(1)

---------------------------------------------------------------------------
(* C10 *)

\* C10 as stated: the list of files is fixed before the output is opened,
\* the output is opened and truncated before any file is read, and an
\* output path that is a matched entry contributes empty content.
C10_OutputContributesNothing ==
    \A p \in Procs :
        /\ st[p].opened => st[p].md_files = Sources(p)
        /\ Latest(p) /\ st[p].pc = "read" /\ st[p].i = 0 => OutData(p) = <<>>
        /\ \A k \in 1..Len(st[p].segs) :
              st[p].segs[k].path = st[p].output_file => st[p].segs[k].to = st[p].segs[k].from

\* C10 amended: the list of files is fixed before the output is opened, the
\* output is opened and truncated before any file is read, and an output
\* path that is a matched entry contributes, at its sorted position, not its
\* previous content but the part of the text written before it that had
\* reached the file when it was read: nothing when it sorts first or when
\* less than a buffer has been written, a prefix of that text otherwise.
C10_OutputContributesFlushedPart ==
    \A p \in Procs :
        /\ st[p].opened => st[p].md_files = Sources(p)
        /\ Latest(p) /\ st[p].pc = "read" /\ st[p].i = 0 => OutData(p) = <<>>
        /\ \A k \in 1..Len(st[p].segs) :
              LET seg == st[p].segs[k]
                  part == SubSeq(st[p].written, seg.from + 1, seg.to)
              IN  seg.path = st[p].output_file =>
                     /\ IsPrefix(part, SubSeq(st[p].written, 1, seg.from))
                     /\ seg.from < BufSize => part = <<>>

C10_Witness ==
    /\ Succeeded(1)
    /\ st[1].snap[st[1].output_file].kind = "file"
    /\ \E k \in 1..Len(st[1].segs) :
          /\ st[1].segs[k].path = st[1].output_file
          /\ st[1].segs[k].to > st[1].segs[k].from

---------------------------------------------------------------------------
(* C9 *)

Finished(p) == st[p].pc \in {"returned", "exited"}

\* C9 as stated: when two invocations with the same output path and
\* different source directories have both finished with success, the output
\* file holds the complete merged document of one of them.
C9_LastWriterWins ==
    (\A p \in Procs : Finished(p) /\ st[p].result) =>
        \E p \in Procs : fs[st[p].output_file].data = FullDocument(p, <<>>)

\* C9 amended: when both invocations have finished, one of them at least
\* having opened the output, the output file may mix bytes of both: each byte of it is the byte at the same offset of the
\* stream one of the two invocations wrote (its complete merged document
\* when it returned success), or a NUL filling a gap left when the other
\* invocation truncated the file, and the file is no longer than the longer
\* of the two streams.
C9_OutputMixesStreams ==
    (\A p \in Procs : Finished(p)) /\ (\E p \in Procs : st[p].opened) =>
        LET data == fs[st[1].output_file].data
        IN  /\ \A p \in Procs : st[p].result => st[p].written = FullDocument(p, <<>>)
            /\ \E p \in Procs : Len(data) <= Len(st[p].written)
            /\ \A k \in 1..Len(data) :
                  \/ data[k] = 0
                  \/ \E p \in Procs : k <= Len(st[p].written) /\ data[k] = st[p].written[k]

C9_Witness ==
    /\ \A p \in Procs : Finished(p) /\ st[p].result
    /\ \A p \in Procs : fs[st[p].output_file].data # st[p].written
    /\ \E k \in 1..Len(fs[<<COMPILED>>].data) : fs[<<COMPILED>>].data[k] = 0

====
